---------------------------- MODULE Spec2Model ----------------------------
(***************************************************************************)
(* Le Stash CRDT sync: replicas of a local SQLite database whose `items`   *)
(* table is a cr-sqlite CRR.  Modelled from                                *)
(*   packages/lestash/src/lestash/core/crsqlite.py                         *)
(*   packages/lestash/src/lestash/server/app.py                            *)
(*   packages/lestash/src/lestash/core/database.py                         *)
(*   packages/lestash/src/lestash/cli/sync.py                              *)
(*   packages/lestash/src/lestash/cli/sources.py                           *)
(* The merge rule itself lives in the cr-sqlite extension that the Python  *)
(* code drives through the crsql_changes virtual table; the extension is   *)
(* not part of the repository, so its winner rule is taken from the        *)
(* behavioural contract (sections 3 and 4.2 of the specification) and its  *)
(* clock bookkeeping from what the repository's tests assert.              *)
(***************************************************************************)
EXTENDS Integers, Sequences, FiniteSets, TLC

(***************************************************************************)
(* Bounds                                                                  *)
(***************************************************************************)
MaxWrites == 3
MaxWritesBad == 2
MaxSince == 1
MaxWritesFile == 1
MaxWritesErr == 1
MaxWritesConc == 2
MaxRequests == 2
MaxWritesIngest == 3
MaxSchemaOps == 3

(***************************************************************************)
(* Fixed universe                                                          *)
(***************************************************************************)
Replicas == {"A", "B"}
RowIds == {1, 2}
Cols == {"source_id", "title", "author"}

\* The columns an UPDATE of an item sets: never the key of its source.
UpdatedCols == {"title", "author"}
SYNC_TABLES == {"items"}

\* Characters of a text are numbers: 0..15 are the hex digits, larger
\* numbers are characters that are not hex digits.
HexDigits == 0..15
NotHexChar == 16

Text(s) == [t |-> "text", v |-> s]
Bytes(b) == [t |-> "bytes", v |-> b]
Null == [t |-> "null", v |-> <<>>]

\* The values local writes store in a column.
Vals == {Text(<<16>>), Text(<<17>>)}

\* crsql_site_id(): one random, fixed identifier per database.
SiteIdOf(r) == IF r = "A" THEN <<10>> ELSE <<171>>

(***************************************************************************)
(* bytes.hex() and bytes.fromhex()                                         *)
(***************************************************************************)
RECURSIVE Hex(_)
Hex(b) ==
    IF b = <<>> THEN <<>>
    ELSE <<Head(b) \div 16, Head(b) % 16>> \o Hex(Tail(b))

\* The ValueError of bytes.fromhex, told apart from every byte string.
HexError == <<-1>>

\* The KeyError of change["site_id"] on a dict without the key.
KeyError == <<-2>>

RECURSIVE FromHexPairs(_)
FromHexPairs(s) ==
    IF s = <<>> THEN <<>>
    ELSE <<s[1] * 16 + s[2]>> \o FromHexPairs(SubSeq(s, 3, Len(s)))

FromHex(s) ==
    IF Len(s) % 2 = 1 \/ \E i \in 1..Len(s) : s[i] \notin HexDigits
    THEN HexError
    ELSE FromHexPairs(s)

\* Sequences compare bytewise, as SQLite compares blobs.
RECURSIVE BytesLess(_, _)
BytesLess(a, b) ==
    IF a = <<>> THEN b # <<>>
    ELSE IF b = <<>> THEN FALSE
    ELSE IF Head(a) # Head(b) THEN Head(a) < Head(b)
    ELSE BytesLess(Tail(a), Tail(b))

(***************************************************************************)
(* One database                                                            *)
(***************************************************************************)
NoRow == [source_id |-> [t |-> "absent", v |-> <<>>],
          title |-> [t |-> "absent", v |-> <<>>],
          author |-> [t |-> "absent", v |-> <<>>]]
NoEntry == [col_version |-> 0, db_version |-> 0, site_id |-> <<>>, seq |-> 0]

\* The causal length of a row and, for a deleted row, the clock of its
\* delete: cl is 0 for a row that never was, odd for a row that exists and
\* even for a deleted one.
NoLife == [cl |-> 0, db_version |-> 0, site_id |-> <<>>]
Alive(cl) == [NoLife EXCEPT !.cl = cl]

Cells == RowIds \X Cols

\* init_database + upgrade_to_crr("items") on an empty database.
EmptyDb(r) ==
    [site_id |-> SiteIdOf(r),
     db_version |-> 0,
     rows |-> [id \in RowIds |-> NoRow],
     clock |-> [c \in Cells |-> NoEntry],
     life |-> [id \in RowIds |-> NoLife],
     fts |-> [id \in RowIds |-> NoRow]]

RowExists(d, id) == d.rows[id] # NoRow

\* The packed primary key blob of crsql_changes.pk.
PackPk(id) == <<id>>
UnpackPk(b) == b[1]

\* Position of a column in the table, the seq of its change in an INSERT.
ColSeq(cid) == IF cid = "source_id" THEN 0 ELSE IF cid = "title" THEN 1 ELSE 2


(***************************************************************************)
(* Local writes: ordinary SQL on a CRR table, captured by the cr-sqlite    *)
(* triggers, and indexed by the items_ai / items_au triggers.              *)
(***************************************************************************)
\* INSERT INTO items (id, source_id, title, author) VALUES (...);
\* conn.commit()
InsertRowOf(d, id, row) ==
    LET v == d.db_version + 1
    IN [d EXCEPT
          !.db_version = v,
          !.rows[id] = row,
          !.clock = [c \in Cells |->
                       IF c[1] = id
                       THEN [col_version |-> d.clock[c].col_version + 1,
                             db_version |-> v,
                             site_id |-> d.site_id,
                             seq |-> ColSeq(c[2])]
                       ELSE d.clock[c]],
          !.life[id] = Alive(IF d.life[id].cl % 2 = 0 THEN d.life[id].cl + 1
                             ELSE d.life[id].cl),
          !.fts[id] = row]

\* The source_id the tests give the item they insert under an id.
SourceIdOf(id) == Text(<<32 + id>>)

\* An insert with an explicit id, as the tests make it.
InsertItem(d, id, title, author) ==
    InsertRowOf(d, id, [source_id |-> SourceIdOf(id), title |-> title, author |-> author])

\* The id SQLite gives a row inserted without one: one more than the
\* largest id in the table (INTEGER PRIMARY KEY, no AUTOINCREMENT).
AutoId(d) ==
    LET used == {id \in RowIds : d.rows[id] # NoRow}
    IN IF used = {} THEN 1
       ELSE 1 + CHOOSE m \in used : \A id \in used : id <= m

\* The keys (source_type, source_id) of the items a source yields; the
\* source_type is the same for all of them.
SourceIds == {SourceIdOf(id) : id \in RowIds}

\* SELECT id FROM items WHERE source_type = ? AND source_id = ?
Existing(d, source_id) == {id \in RowIds : d.rows[id].source_id = source_id}

\* UPDATE items SET title = ?, author = ? WHERE id = ?: the columns whose
\* value changes get a new clock, all under the version of the transaction.
UpdateRow(d, id, title, author) ==
    LET v == d.db_version + 1
        row == [d.rows[id] EXCEPT !.title = title, !.author = author]
        changed == {cid \in UpdatedCols : d.rows[id][cid] # row[cid]}
    IN IF changed = {} THEN d
       ELSE [d EXCEPT
               !.db_version = v,
               !.rows[id] = row,
               !.clock = [c \in Cells |->
                            IF c[1] = id /\ c[2] \in changed
                            THEN [col_version |-> d.clock[c].col_version + 1,
                                  db_version |-> v,
                                  site_id |-> d.site_id,
                                  seq |-> IF c[2] = "author" /\ "title" \in changed
                                          THEN 1 ELSE 0]
                            ELSE d.clock[c]],
               !.fts[id] = row]

\* upsert_item followed by the caller's commit: the item is looked up by
\* its key and updated, or inserted under the id the database assigns.
upsert_item(d, source_id, title, author) ==
    LET existing == Existing(d, source_id)
    IN IF existing # {}
       THEN UpdateRow(d, CHOOSE id \in existing : \A o \in existing : id <= o,
                      title, author)
       ELSE InsertRowOf(d, AutoId(d),
                        [source_id |-> source_id, title |-> title, author |-> author])

\* An update whose change is recorded under the version the database
\* already has.
UpdateItem_SameVersion(d, id, cid, val) ==
    LET row == [d.rows[id] EXCEPT ![cid] = val]
    IN [d EXCEPT
          !.rows[id] = row,
          !.clock[<<id, cid>>] = [col_version |-> d.clock[<<id, cid>>].col_version + 1,
                                  db_version |-> d.db_version,
                                  site_id |-> d.site_id,
                                  seq |-> 0],
          !.fts[id] = row]

\* UPDATE items SET <cid> = ? WHERE id = ?; conn.commit()
UpdateItem(d, id, cid, val) ==
    LET v == d.db_version + 1
        row == [d.rows[id] EXCEPT ![cid] = val]
    IN [d EXCEPT
          !.db_version = v,
          !.rows[id] = row,
          !.clock[<<id, cid>>] = [col_version |-> d.clock[<<id, cid>>].col_version + 1,
                                  db_version |-> v,
                                  site_id |-> d.site_id,
                                  seq |-> 0],
          !.fts[id] = row]

\* DELETE FROM items WHERE id = ?; conn.commit(): the row and the clocks of
\* its columns go, the row's causal length becomes even, and the items_ad
\* trigger removes the index entry.
DeleteItem(d, id) ==
    LET v == d.db_version + 1
    IN [d EXCEPT
          !.db_version = v,
          !.rows[id] = NoRow,
          !.clock = [c \in Cells |-> IF c[1] = id THEN NoEntry ELSE d.clock[c]],
          !.life[id] = [cl |-> d.life[id].cl + 1, db_version |-> v, site_id |-> d.site_id],
          !.fts[id] = NoRow]

(***************************************************************************)
(* The crsql_changes virtual table                                         *)
(***************************************************************************)
\* The cid of the record that stands for a deleted row.
Sentinel == "-1"

IsDeleted(d, id) == d.life[id].cl > 0 /\ d.life[id].cl % 2 = 0

\* SELECT ... FROM crsql_changes: one row per tracked cell, carrying the
\* cell's current value and clock and the causal length of its row, and one
\* row per deleted row.
CrsqlChanges(d) ==
    {[table |-> "items",
      pk |-> Bytes(PackPk(c[1])),
      cid |-> c[2],
      val |-> d.rows[c[1]][c[2]],
      col_version |-> d.clock[c].col_version,
      db_version |-> d.clock[c].db_version,
      site_id |-> d.clock[c].site_id,
      cl |-> d.life[c[1]].cl,
      seq |-> d.clock[c].seq] : c \in {x \in Cells : d.clock[x] # NoEntry}}
    \cup
    {[table |-> "items",
      pk |-> Bytes(PackPk(id)),
      cid |-> Sentinel,
      val |-> Null,
      col_version |-> d.life[id].cl,
      db_version |-> d.life[id].db_version,
      site_id |-> d.life[id].site_id,
      cl |-> d.life[id].cl,
      seq |-> 0] : id \in {x \in RowIds : IsDeleted(d, x)}}

\* crsql_db_version()
get_db_version(d) == d.db_version

\* The winner rule: the incoming record replaces the local cell when no
\* local record exists, or its col_version is greater, or the col_versions
\* are equal and its site_id is greater.
ResolveWins(local, col_version, site_id) ==
    \/ local = NoEntry
    \/ col_version > local.col_version
    \/ /\ col_version = local.col_version
       /\ BytesLess(local.site_id, site_id)

\* Filing a merged record without moving past the database's own version.
NextDbVersion_NotPast(d, pending, incoming) ==
    LET a == d.db_version
        b == IF a < pending THEN pending ELSE a
    IN IF b < incoming THEN incoming ELSE b

\* The db_version a merged record is filed under: past the database's own
\* version, never below the version already pending in the transaction.
NextDbVersion(d, pending, incoming) ==
    LET a == d.db_version + 1
        b == IF a < pending THEN pending ELSE a
    IN IF b < incoming THEN incoming ELSE b

\* An unknown table or column.
Malformed(ch) == ch.table \notin SYNC_TABLES \/ ch.cid \notin Cols \cup {Sentinel}

\* A primary key that is not a packed blob.
PkUnreadable(ch) == ch.pk.t # "bytes"

\* The row a merged record starts when the replica holds no row of its
\* life.
NullRow == [source_id |-> Null, title |-> Null, author |-> Null]

Unchanged(tx) == [error |-> FALSE, db |-> tx.db, pending |-> tx.pending]

\* The record of a delete: it wins over a row of a smaller causal length,
\* whose columns and their clocks go.
MergeSentinel(tx, ch) ==
    LET d == tx.db
        id == UnpackPk(ch.pk.v)
    IN IF ch.cl <= d.life[id].cl
       THEN Unchanged(tx)
       ELSE
         LET v == NextDbVersion(d, tx.pending, ch.db_version)
         IN [error |-> FALSE,
             db |-> [d EXCEPT
                       !.rows[id] = IF ch.cl % 2 = 0 THEN NoRow ELSE NullRow,
                       !.clock = [c \in Cells |-> IF c[1] = id THEN NoEntry
                                                  ELSE d.clock[c]],
                       !.life[id] = IF ch.cl % 2 = 0
                                    THEN [cl |-> ch.cl, db_version |-> v,
                                          site_id |-> ch.site_id]
                                    ELSE Alive(ch.cl)],
             pending |-> v]

\* A merge of column records that does not look at the causal length.
MergeColumn_IgnoresCl(tx, ch) ==
    LET d == tx.db
        id == UnpackPk(ch.pk.v)
        cell == <<id, ch.cid>>
    IN IF ~ResolveWins(d.clock[cell], ch.col_version, ch.site_id)
       THEN Unchanged(tx)
       ELSE
         LET v == NextDbVersion(d, tx.pending, ch.db_version)
             base == IF RowExists(d, id) THEN d.rows[id] ELSE NullRow
         IN [error |-> FALSE,
             db |-> [d EXCEPT
                       !.rows[id] = [base EXCEPT ![ch.cid] = ch.val],
                       !.clock[cell] = [col_version |-> ch.col_version,
                                        db_version |-> v,
                                        site_id |-> ch.site_id,
                                        seq |-> ch.seq]],
             pending |-> v]

\* A merge that compares a record with the newest clock of the whole row
\* instead of the clock of the record's own column.
MergeColumn_RowClock(tx, ch) ==
    LET d == tx.db
        id == UnpackPk(ch.pk.v)
        cell == <<id, ch.cid>>
        fresh == ch.cl > d.life[id].cl
        entries == {d.clock[<<id, c>>] : c \in Cols}
        newest == CHOOSE e \in entries : \A o \in entries :
                     \/ o.col_version < e.col_version
                     \/ o.col_version = e.col_version /\ ~BytesLess(e.site_id, o.site_id)
        local == IF fresh \/ d.clock[cell] = NoEntry THEN NoEntry ELSE newest
    IN IF ch.cl < d.life[id].cl \/ ~ResolveWins(local, ch.col_version, ch.site_id)
       THEN Unchanged(tx)
       ELSE
         LET v == NextDbVersion(d, tx.pending, ch.db_version)
             base == IF RowExists(d, id) /\ ~fresh THEN d.rows[id] ELSE NullRow
             entry == [col_version |-> ch.col_version,
                       db_version |-> v,
                       site_id |-> ch.site_id,
                       seq |-> ch.seq]
         IN [error |-> FALSE,
             db |-> [d EXCEPT
                       !.rows[id] = [base EXCEPT ![ch.cid] = ch.val],
                       !.clock = [c \in Cells |->
                                    IF c = cell THEN entry
                                    ELSE IF fresh /\ c[1] = id THEN NoEntry
                                    ELSE d.clock[c]],
                       !.life[id] = Alive(ch.cl)],
             pending |-> v]

\* The record of a column.  A record of an earlier life of the row than the
\* replica holds is stale; a record of a later life starts the row anew;
\* within one life the winner rule decides.
MergeColumn(tx, ch) ==
    LET d == tx.db
        id == UnpackPk(ch.pk.v)
        cell == <<id, ch.cid>>
        fresh == ch.cl > d.life[id].cl
        local == IF fresh THEN NoEntry ELSE d.clock[cell]
    IN IF ch.cl < d.life[id].cl \/ ~ResolveWins(local, ch.col_version, ch.site_id)
       THEN Unchanged(tx)
       ELSE
         LET v == NextDbVersion(d, tx.pending, ch.db_version)
             base == IF RowExists(d, id) /\ ~fresh THEN d.rows[id] ELSE NullRow
             entry == [col_version |-> ch.col_version,
                       db_version |-> v,
                       site_id |-> ch.site_id,
                       seq |-> ch.seq]
         IN [error |-> FALSE,
             db |-> [d EXCEPT
                       !.rows[id] = [base EXCEPT ![ch.cid] = ch.val],
                       !.clock = [c \in Cells |->
                                    IF c = cell THEN entry
                                    ELSE IF fresh /\ c[1] = id THEN NoEntry
                                    ELSE d.clock[c]],
                       !.life[id] = Alive(ch.cl)],
             pending |-> v]

\* A merge that drops a record of a row the replica does not hold yet,
\* unless the record is the one of the row's last column.
CrsqlChangesInsert_NeedsRow(tx, ch) ==
    IF Malformed(ch) \/ PkUnreadable(ch)
    THEN [error |-> TRUE, db |-> tx.db, pending |-> tx.pending]
    ELSE IF ch.cid = Sentinel THEN MergeSentinel(tx, ch)
    ELSE IF ~RowExists(tx.db, UnpackPk(ch.pk.v)) /\ ColSeq(ch.cid) # 2
    THEN Unchanged(tx)
    ELSE MergeColumn(tx, ch)

\* INSERT INTO crsql_changes VALUES (...): merge one record into the open
\* transaction.  tx is [db, pending]: the working copy and the db_version
\* pending for the transaction (0 when none yet).
CrsqlChangesInsert(tx, ch) ==
    IF Malformed(ch) \/ PkUnreadable(ch)
    THEN [error |-> TRUE, db |-> tx.db, pending |-> tx.pending]
    ELSE IF ch.cid = Sentinel THEN MergeSentinel(tx, ch)
    ELSE MergeColumn(tx, ch)

\* conn.commit(): the pending db_version becomes the database's.
Commit(tx) ==
    IF tx.pending > tx.db.db_version
    THEN [tx.db EXCEPT !.db_version = tx.pending]
    ELSE tx.db

(***************************************************************************)
(* crsqlite.py                                                             *)
(***************************************************************************)
OrderLeq(a, b) ==
    \/ a.db_version < b.db_version
    \/ a.db_version = b.db_version /\ a.seq <= b.seq

\* Every sequence that lists the set S once each in ascending
\* (db_version, seq) order; rows that tie may come in any order.
RECURSIVE OrderBy(_)
OrderBy(S) ==
    IF S = {} THEN {<<>>}
    ELSE UNION {{<<m>> \o q : q \in OrderBy(S \ {m})} :
                  m \in {x \in S : \A y \in S : OrderLeq(x, y)}}

\* The SELECT with WHERE db_version >= ?.
SelectChanges_Inclusive(d, since_version, exclude_site_id) ==
    {row \in CrsqlChanges(d) :
        /\ row.db_version >= since_version
        /\ exclude_site_id # <<>> => row.site_id # exclude_site_id}

\* The rows the SELECT of get_changes_since matches.
SelectChanges(d, since_version, exclude_site_id) ==
    {row \in CrsqlChanges(d) :
        /\ row.db_version > since_version
        /\ exclude_site_id # <<>> => row.site_id # exclude_site_id}

\* The dict get_changes_since builds from one row: site_id as hex text.
ChangeDict(row) == [row EXCEPT !.site_id = Hex(row.site_id)]

\* A reader that takes the first row of the cursor only.
get_changes_since_FirstRowOnly(d, since_version, exclude_site_id) ==
    {[i \in 1..(IF Len(q) > 0 THEN 1 ELSE 0) |-> ChangeDict(q[i])] :
        q \in OrderBy(SelectChanges(d, since_version, exclude_site_id))}

\* get_changes_since(conn, since_version, exclude_site_id): the set of lists
\* it can return (one per order the database may give tied rows).
get_changes_since(d, since_version, exclude_site_id) ==
    {[i \in 1..Len(q) |-> ChangeDict(q[i])] :
        q \in OrderBy(SelectChanges(d, since_version, exclude_site_id))}

\* On an sqlite3.Error, the rows read before the error are returned.
GetChangesOrError_Partial(d, since_version, sqlite_error) ==
    IF sqlite_error
    THEN {IF Len(q) = 0 THEN q ELSE <<q[1]>> : q \in get_changes_since(d, since_version, <<>>)}
    ELSE get_changes_since(d, since_version, <<>>)

\* get_changes_since with its except branch: when the SELECT raises an
\* sqlite3.Error (no crsql_changes table, a locked database) the error is
\* logged and the empty list returned.
GetChangesOrError(d, since_version, sqlite_error) ==
    IF sqlite_error THEN {<<>>}
    ELSE get_changes_since(d, since_version, <<>>)

\* apply_changes(conn, changes).  Returns the connection's state afterwards:
\*   outcome "returned": db is the committed database (or the rolled back one
\*                       after an sqlite3.Error) and applied the return value;
\*   outcome "raised":   another exception left the function; db is the
\*                       uncommitted working copy of the open transaction.
\* An error handler that commits what the loop had executed.
OnSqliteError_NoRollback(start, tx, i) ==
    [outcome |-> "returned", db |-> Commit(tx), applied |-> i - 1]

\* except sqlite3.Error: conn.rollback(); return 0
OnSqliteError(start, tx, i) ==
    [outcome |-> "returned", db |-> start, applied |-> 0]

\* The parameter tuple with col_version and db_version in each other's place.
InsertRow_SwappedVersions(change, site_id) ==
    [change EXCEPT !.site_id = site_id,
                   !.col_version = change.db_version,
                   !.db_version = change.col_version]

\* The parameter tuple with the site_id left out (NULL).
InsertRow_NoSiteId(change, site_id) ==
    [change EXCEPT !.site_id = <<>>]

\* The parameter tuple of the INSERT INTO crsql_changes: the fields of the
\* change dict, with the decoded site_id.
InsertRow(change, site_id) ==
    [change EXCEPT !.site_id = site_id]

RECURSIVE ApplyLoop(_, _, _, _)
ApplyLoop(start, tx, changes, i) ==
    IF i > Len(changes)
    THEN [outcome |-> "returned", db |-> Commit(tx), applied |-> i - 1]
    ELSE
      LET change == changes[i]
          site_id == IF "site_id" \notin DOMAIN change THEN KeyError
                     ELSE IF change.site_id # <<>> THEN FromHex(change.site_id)
                     ELSE <<>>
      IN IF site_id \in {KeyError, HexError}
         THEN [outcome |-> "raised", db |-> tx.db, applied |-> i - 1]
         ELSE
           LET r == CrsqlChangesInsert(tx, InsertRow(change, site_id))
           IN IF r.error
              THEN OnSqliteError(start, tx, i)
              ELSE ApplyLoop(start, [db |-> r.db, pending |-> r.pending], changes, i + 1)

\* apply_changes without the conn.commit(): the caller's connection closes
\* and nothing of the batch is kept.
apply_changes_NoCommit(d, changes) ==
    [ApplyLoop(d, [db |-> d, pending |-> 0], changes, 1) EXCEPT !.db = d]

apply_changes(d, changes) == ApplyLoop(d, [db |-> d, pending |-> 0], changes, 1)

\* items_fts is an FTS5 table over the content of items.  What its
\* DELETE FROM items_fts does when the index does not hold what items holds
\* depends on the SQLite the program runs on: it clears the index
\* ("rebuilds"), or it fails with sqlite3.DatabaseError on an item the index
\* has no entry of and leaves the entries of content that is gone ("strict").
FtsEngines == {"rebuilds", "strict"}

\* The items the index has no entry of.
Unindexed(d) == {id \in RowIds : d.rows[id] # NoRow /\ d.fts[id] = NoRow}

\* rebuild_fts_index(conn): DELETE FROM items_fts, then re-insert every row
\* of items and commit; on an sqlite3.Error the error is logged.  The
\* database afterwards.
rebuild_fts_index(d, fts_engine) ==
    IF fts_engine = "strict" /\ d.fts # d.rows
    THEN d
    ELSE [d EXCEPT !.fts = d.rows]

\* What rebuild_fts_index returns: SELECT COUNT(*) FROM items_fts, which
\* counts the rows of items, or 0 after an sqlite3.Error.
RebuildCount(d, fts_engine) ==
    IF fts_engine = "strict" /\ Unindexed(d) # {}
    THEN 0
    ELSE Cardinality({id \in RowIds : d.rows[id] # NoRow})

FtsCount(d) == Cardinality({id \in RowIds : d.fts[id] # NoRow})

\* The format tag of a sync file.
FORMAT == "lestash-crsqlite-v1"

\* json.dumps raises TypeError on a bytes value; text, numbers and null
\* are written and read back by json.loads as they are.
JsonSerializable(changes) ==
    \A i \in 1..Len(changes) :
       changes[i].pk.t # "bytes" /\ changes[i].val.t # "bytes"

\* The dict export_changes_to_file builds from what it has read.
ExportData(site_id, db_version, since_version, changes) ==
    [kind |-> "json", format |-> FORMAT, site_id |-> Hex(site_id),
     db_version |-> db_version, since_version |-> since_version,
     change_count |-> Len(changes), changes |-> changes]

\* output_path.write_text(json.dumps(export_data)): f is the file before.
WriteExport(f, export_data) ==
    IF JsonSerializable(export_data.changes)
    THEN [outcome |-> "returned", error |-> "none", file |-> export_data,
          export_data |-> export_data]
    ELSE [outcome |-> "raised", error |-> "TypeError", file |-> f,
          export_data |-> export_data]

\* export_changes_to_file(conn, output_path, since_version): the outcomes
\* it can have, one per list get_changes_since can return.
export_changes_to_file(d, f, since_version) ==
    {WriteExport(f, ExportData(d.site_id, get_db_version(d), since_version, changes)) :
        changes \in get_changes_since(d, since_version, <<>>)}

\* The engine is handed the pk of a record read from a file as text.  What
\* cr-sqlite makes of a text pk is not laid down: it rejects the record, or
\* it reads the text as the key the hex digits spell.
EngineReadings == {"rejects", "reads"}

AsRead(changes, reading) ==
    [i \in 1..Len(changes) |->
        IF /\ reading = "reads"
           /\ changes[i].pk.t = "text"
           /\ FromHex(changes[i].pk.v) # HexError
        THEN [changes[i] EXCEPT !.pk = Bytes(FromHex(changes[i].pk.v))]
        ELSE changes[i]]

\* An import that applies the changes before it looks at the format tag.
import_changes_from_file_ApplyFirst(d, f, reading) ==
    IF f.kind = "missing"
    THEN [outcome |-> "raised", error |-> "FileNotFoundError", db |-> d,
          applied |-> 0, received |-> 0]
    ELSE IF f.kind = "garbage"
    THEN [outcome |-> "raised", error |-> "ValueError", db |-> d,
          applied |-> 0, received |-> 0]
    ELSE LET res == apply_changes(d, AsRead(f.changes, reading))
         IN IF res.outcome = "raised"
            THEN [outcome |-> "raised", error |-> "ValueError", db |-> d,
                  applied |-> 0, received |-> 0]
            ELSE IF f.format # FORMAT
            THEN [outcome |-> "raised", error |-> "ValueError", db |-> res.db,
                  applied |-> 0, received |-> 0]
            ELSE [outcome |-> "returned", error |-> "none", db |-> res.db,
                  applied |-> res.applied, received |-> Len(f.changes)]

\* import_changes_from_file(conn, input_path).  outcome "raised": an
\* exception left the function; db is what the connection has committed.
import_changes_from_file(d, f, reading) ==
    IF f.kind = "missing"
    THEN [outcome |-> "raised", error |-> "FileNotFoundError", db |-> d,
          applied |-> 0, received |-> 0]
    ELSE IF f.kind = "garbage"
    THEN [outcome |-> "raised", error |-> "ValueError", db |-> d,
          applied |-> 0, received |-> 0]
    ELSE IF f.format # FORMAT
    THEN [outcome |-> "raised", error |-> "ValueError", db |-> d,
          applied |-> 0, received |-> 0]
    ELSE LET res == apply_changes(d, AsRead(f.changes, reading))
         IN IF res.outcome = "raised"
            THEN [outcome |-> "raised", error |-> "ValueError", db |-> d,
                  applied |-> 0, received |-> 0]
            ELSE [outcome |-> "returned", error |-> "none", db |-> res.db,
                  applied |-> res.applied, received |-> Len(f.changes)]

(***************************************************************************)
(* cli/sync.py                                                             *)
(***************************************************************************)
\* lestash sync import <file> --rebuild-fts/--no-rebuild-fts on the database
\* d.  An exception leaves the with block: the connection is closed with
\* its transaction uncommitted.
import_changes(d, f, rebuild_fts, reading, fts_engine) ==
    IF f.kind = "missing"
    THEN [status |-> "exit1", error |-> "File not found", db |-> d, applied |-> 0]
    ELSE LET res == import_changes_from_file(d, f, reading)
         IN IF res.outcome = "raised"
            THEN [status |-> "exit1", error |-> "Invalid file format",
                  db |-> res.db, applied |-> 0]
            ELSE [status |-> "ok", error |-> "none",
                  db |-> IF rebuild_fts THEN rebuild_fts_index(res.db, fts_engine) ELSE res.db,
                  applied |-> res.applied]

\* lestash sync export <file> --since <since>: a TypeError is none of the
\* exceptions the command catches.
export_changes(d, f, since) ==
    {[status |-> IF out.outcome = "returned" THEN "ok" ELSE "crash",
      error |-> out.error, file |-> out.file,
      change_count |-> out.export_data.change_count,
      db_version |-> out.export_data.db_version] :
        out \in export_changes_to_file(d, f, since)}

(***************************************************************************)
(* server/app.py                                                           *)
(***************************************************************************)
\* _serialize_change: every bytes value becomes its hex text.
SerializeValue(x) == IF x.t = "bytes" THEN Text(Hex(x.v)) ELSE x

_serialize_change(change) ==
    [change EXCEPT !.pk = SerializeValue(change.pk),
                   !.val = SerializeValue(change.val)]

\* _deserialize_change: a text pk that is valid hex becomes bytes again; a
\* ValueError is suppressed and leaves the pk as it was.
_deserialize_change(change) ==
    IF change.pk.t = "text" /\ FromHex(change.pk.v) # HexError
    THEN [change EXCEPT !.pk = Bytes(FromHex(change.pk.v))]
    ELSE change

(***************************************************************************)
(* The schema of one database file: migrations and CRR registration        *)
(***************************************************************************)
\* database.py: SCHEMA_VERSION = 3
SCHEMA_VERSION == 3

\* SYNC_TABLES of cli/sync.py, in the order setup registers them.
SetupTables == <<"items", "tags", "item_tags", "sources", "person_profiles">>
AllSyncTables == {SetupTables[i] : i \in 1..Len(SetupTables)}

\* The tables the base schema creates, and those migrations 1 and 2 add.
BaseTables == {"items", "tags", "item_tags", "sources", "sync_log"}
HISTORY == "item_history"
PROFILES == "person_profiles"

ItemIds == {1, 2}

\* What the last command was: the table it named, what it answered, the
\* migrations it applied, whether the table was registered before, and the
\* number of items the source yielded.
NoLast == [op |-> "none", table |-> "", ok |-> TRUE, applied |-> <<>>, again |-> FALSE,
           yielded |-> 0]

\* No file at the database path.
MissingStore ==
    [user_version |-> 0,
     tables |-> {},       \* the tables that exist
     unique |-> {},       \* those with a uniqueness constraint besides the primary key
     crr |-> {},          \* those registered as CRRs
     ledger |-> [t \in AllSyncTables |-> 0],   \* ChangeRecords per table
     db_version |-> 0,
     items |-> {},        \* ids of the rows of items
     history |-> {},      \* item ids that item_history rows reference
     rows |-> {},         \* the other sync tables that hold a row
     sync_log |-> "none", \* status of the last sync_log row
     stored |-> 0,        \* items the last source sync stored
     last |-> NoLast]

\* The migrations, as the list MIGRATIONS holds them.
MIGRATIONS == <<1, 2, 3>>

\* The script of one migration, run on a connection whose foreign_keys
\* pragma is fk.
\*  1: CREATE TABLE IF NOT EXISTS item_history (... REFERENCES items(id)
\*     ON DELETE CASCADE).
\*  2: CREATE TABLE IF NOT EXISTS person_profiles (urn TEXT UNIQUE NOT NULL).
\*  3: every sync table is recreated without its uniqueness constraint and
\*     its rows are copied; DROP TABLE items deletes the rows of items
\*     first, and with foreign keys enabled that delete cascades to
\*     item_history.
MigrationSql(version, s, fk) ==
    CASE version = 1 -> [s EXCEPT !.tables = @ \cup {HISTORY}]
      [] version = 2 -> [s EXCEPT !.tables = @ \cup {PROFILES},
                                  !.unique = IF PROFILES \in s.tables THEN @
                                             ELSE @ \cup {PROFILES}]
      [] version = 3 -> [s EXCEPT !.unique = {},
                                  !.history = IF fk THEN {} ELSE @]
      [] OTHER -> s

get_schema_version(s) == s.user_version
set_schema_version(s, version) == [s EXCEPT !.user_version = version]

\* The loop of apply_migrations from the i-th migration on: res.s is the
\* database, res.applied the versions applied so far.
RECURSIVE MigrationLoop(_, _, _, _)
MigrationLoop(res, fk, current_version, i) ==
    IF i > Len(MIGRATIONS) THEN res
    ELSE LET version == MIGRATIONS[i]
         IN IF version > current_version
            THEN MigrationLoop(
                   [s |-> set_schema_version(MigrationSql(version, res.s, fk), version),
                    applied |-> Append(res.applied, version)],
                   fk, current_version, i + 1)
            ELSE MigrationLoop(res, fk, current_version, i + 1)

\* Every migration run again, whatever the version of the database.
apply_migrations_All(s, fk) ==
    MigrationLoop([s |-> s, applied |-> <<>>], fk, 0, 1)

apply_migrations(s, fk) ==
    MigrationLoop([s |-> s, applied |-> <<>>], fk, get_schema_version(s), 1)

\* init_database: the base schema, then the migrations, on a plain
\* connection (foreign keys off, SQLite's default).
init_database(s) ==
    apply_migrations([s EXCEPT !.tables = @ \cup BaseTables], FALSE)

\* get_connection and get_crdt_connection up to the yield: the file is
\* created if missing, foreign keys are switched on, pending migrations are
\* applied.
Connected(s) ==
    LET created == IF s.tables = {} THEN init_database(s)
                   ELSE [s |-> s, applied |-> <<>>]
    IN IF get_schema_version(created.s) < SCHEMA_VERSION
       THEN LET res == apply_migrations(created.s, TRUE)
            IN [s |-> res.s, applied |-> created.applied \o res.applied]
       ELSE created

\* A re-registration that starts the table's change tracking afresh.
upgrade_to_crr_Again(s, table_name) ==
    IF table_name \in s.unique \/ table_name \notin s.tables
    THEN [ok |-> FALSE, s |-> s]
    ELSE [ok |-> TRUE,
          s |-> [s EXCEPT !.crr = @ \cup {table_name},
                          !.ledger[table_name] = 0]]

\* A registration that does not look at the table's constraints.
upgrade_to_crr_AnyTable(s, table_name) ==
    IF table_name \notin s.tables
    THEN [ok |-> FALSE, s |-> s]
    ELSE [ok |-> TRUE, s |-> [s EXCEPT !.crr = @ \cup {table_name}]]

\* upgrade_to_crr: SELECT crsql_as_crr(table) and commit; an sqlite3.Error
\* is logged and answered False.  crsql_as_crr refuses a table that has a
\* uniqueness constraint besides its primary key (and one that does not
\* exist) and does nothing for a table that is registered already.
upgrade_to_crr(s, table_name) ==
    IF table_name \in s.unique \/ table_name \notin s.tables
    THEN [ok |-> FALSE, s |-> s]
    ELSE [ok |-> TRUE, s |-> [s EXCEPT !.crr = @ \cup {table_name}]]

\* The loop of setup_sync over SYNC_TABLES from the i-th table on: a table
\* that could not be upgraded is reported and the loop goes on.
RECURSIVE SetupLoop(_, _)
SetupLoop(s, i) ==
    IF i > Len(SetupTables) THEN s
    ELSE SetupLoop(upgrade_to_crr(s, SetupTables[i]).s, i + 1)

\* A committed write of one row to a table: a registered table records it
\* in the ledger under a new db_version.
WriteRow(s, t) ==
    LET s1 == IF t = "items"
              THEN [s EXCEPT !.items = @ \cup {IF 1 \in s.items THEN 2 ELSE 1}]
              ELSE [s EXCEPT !.rows = @ \cup {t}]
    IN IF t \in s.crr
       THEN [s1 EXCEPT !.ledger[t] = @ + 1, !.db_version = @ + 1]
       ELSE s1

\* An UPDATE of an item: the capture_item_history trigger of migration 1
\* records the old values in item_history.
UpdateWithHistory(s, id) ==
    LET s1 == [s EXCEPT !.history = @ \cup {id}]
    IN IF "items" \in s.crr
       THEN [s1 EXCEPT !.ledger["items"] = @ + 1, !.db_version = @ + 1]
       ELSE s1

\* INSERT ... ON CONFLICT(<key>) DO UPDATE on a table: SQLite refuses to
\* prepare the statement ("ON CONFLICT clause does not match any PRIMARY KEY
\* or UNIQUE constraint") unless the table has the uniqueness constraint.
OnConflictRaises(s, t) == t \notin s.unique

\* The body of sync_source for one source whose plugin yields n items and
\* raises nothing, on the connection get_connection gave: a sync_log row is
\* written with status "running", each item goes through an INSERT ... ON
\* CONFLICT(source_type, source_id), the sources row through an INSERT ...
\* ON CONFLICT(source_type), any exception makes the status "failed", and
\* the sync_log row is updated at the end.
sync_source(s, n) ==
    LET raised == (n > 0 /\ OnConflictRaises(s, "items")) \/ OnConflictRaises(s, "sources")
        stored == IF OnConflictRaises(s, "items") THEN 0 ELSE n
        s1 == IF stored > 0
              THEN [s EXCEPT !.items = @ \cup {i \in ItemIds : i <= stored}]
              ELSE s
    IN [s1 EXCEPT !.sync_log = IF raised THEN "failed" ELSE "completed",
                  !.stored = stored,
                  !.rows = IF raised THEN @ ELSE @ \cup {"sources"}]

\* The database init_database creates today.
CurrentStore == [init_database(MissingStore).s EXCEPT !.last = NoLast]

\* A database file an earlier release created and filled: its schema
\* version, the uniqueness constraints of that version, its items and the
\* item_history rows its updates left.
OldStore(v, items, history) ==
    [MissingStore EXCEPT
        !.user_version = v,
        !.tables = BaseTables \cup (IF v >= 1 THEN {HISTORY} ELSE {})
                              \cup (IF v >= 2 THEN {PROFILES} ELSE {}),
        !.unique = IF v >= SCHEMA_VERSION THEN {}
                   ELSE {"items", "sources"} \cup (IF v >= 2 THEN {PROFILES} ELSE {}),
        !.items = items,
        !.history = history]

OldStores ==
    {OldStore(x[1], x[2], x[3]) :
       x \in {y \in (0..SCHEMA_VERSION) \X (SUBSET ItemIds) \X (SUBSET ItemIds) :
                 y[3] \subseteq y[2] /\ (y[1] = 0 => y[3] = {})}}

(***************************************************************************)
(* State                                                                   *)
(***************************************************************************)
VARIABLES
    db,      \* db[r]: the committed database of replica r
    wire,    \* the change list last pulled from a replica, kept by the peer
    resp,    \* what the last operation was and what it answered
    writes,  \* number of local write transactions so far
    file,    \* the sync file on disk
    conc,    \* the requests in flight on the server's database file
    store    \* one database file seen at the level of its schema

vars == <<db, wire, resp, writes, file, conc, store>>

\* No file at the path.
NoFile == [kind |-> "missing", format |-> "", site_id |-> <<>>, db_version |-> 0,
           since_version |-> 0, change_count |-> 0, changes |-> <<>>]

NoWire == [pulled |-> FALSE, src |-> "A", since |-> 0, changes |-> <<>>]

\* op, replica, bad, flag: the operation and its inputs; status, error,
\* applied, db_version: its answer.  For the record: pre_version, the db_version of
\* the replica before; won, the number of cells the operation replaced;
\* replay, whether it pushed again what the previous operation pushed.
NoResp == [op |-> "none", replica |-> "A", bad |-> <<0, "none">>,
           status |-> "ok", applied |-> 0, db_version |-> 0,
           pre_version |-> 0, won |-> 0, replay |-> FALSE,
           error |-> "none", flag |-> TRUE, since |-> 0]

\* The cells whose clock differs between two states of a database.
Replaced(before, after) == {c \in Cells : after.clock[c] # before.clock[c]}

\* The requests in flight: the HTTP requests the server's thread pool runs
\* and the commands run beside it, each on a connection of its own to the
\* database file of replica Server.
Procs == {1, 2}
Server == "A"
Peer == "B"

\* One request.  op, body, since: the operation and its inputs; pc: where
\* it stands; conn_open, finalized: its connection; tx: the working copy
\* of its open write transaction; version, changes: what it has read;
\* status, applied, db_version: its answer.
NoProc == [op |-> "none", pc |-> "idle", conn_open |-> FALSE, finalized |-> FALSE,
           body |-> <<>>, since |-> 0, tx |-> EmptyDb(Server),
           version |-> 0, changes |-> <<>>,
           status |-> "none", applied |-> 0, db_version |-> 0]

\* schema_version: PRAGMA user_version of the file; lock: the request that
\* holds SQLite's write lock on the file, 0 for none; started: requests
\* started so far.
NoConc == [schema_version |-> SCHEMA_VERSION, lock |-> 0, started |-> 0,
           procs |-> [p \in Procs |-> NoProc]]

Init ==
    /\ db = [r \in Replicas |-> EmptyDb(r)]
    /\ wire = NoWire
    /\ resp = NoResp
    /\ writes = 0
    /\ file = NoFile
    /\ conc = NoConc
    /\ store = CurrentStore

LocalInsert(r, id, val) ==
    /\ writes < MaxWrites
    /\ ~RowExists(db[r], id)
    /\ db' = [db EXCEPT ![r] = InsertItem(db[r], id, val, val)]
    /\ resp' = [NoResp EXCEPT !.op = "insert", !.replica = r,
                              !.pre_version = get_db_version(db[r]),
                              !.db_version = get_db_version(db'[r])]
    /\ writes' = writes + 1
    /\ UNCHANGED <<wire, file, conc, store>>

LocalUpdate(r, id, cid, val) ==
    /\ writes < MaxWrites
    /\ RowExists(db[r], id)
    /\ db[r].rows[id][cid] # val
    /\ db' = [db EXCEPT ![r] = UpdateItem(db[r], id, cid, val)]
    /\ resp' = [NoResp EXCEPT !.op = "update", !.replica = r,
                              !.pre_version = get_db_version(db[r]),
                              !.db_version = get_db_version(db'[r])]
    /\ writes' = writes + 1
    /\ UNCHANGED <<wire, file, conc, store>>

LocalDelete(r, id) ==
    /\ writes < MaxWrites
    /\ RowExists(db[r], id)
    /\ db' = [db EXCEPT ![r] = DeleteItem(db[r], id)]
    /\ resp' = [NoResp EXCEPT !.op = "delete", !.replica = r,
                              !.pre_version = get_db_version(db[r]),
                              !.db_version = get_db_version(db'[r])]
    /\ writes' = writes + 1
    /\ UNCHANGED <<wire, file, conc, store>>

\* INSERT INTO items (source_type, source_id, content) VALUES (...) without
\* an id, and commit.
InsertAuto(r, source_id, val) ==
    /\ writes < MaxWritesIngest
    /\ AutoId(db[r]) \in RowIds
    /\ db' = [db EXCEPT ![r] = InsertRowOf(db[r], AutoId(db[r]),
                                  [source_id |-> source_id, title |-> val, author |-> val])]
    /\ resp' = [NoResp EXCEPT !.op = "insert", !.replica = r,
                              !.pre_version = get_db_version(db[r]),
                              !.db_version = get_db_version(db'[r])]
    /\ writes' = writes + 1
    /\ UNCHANGED <<wire, file, conc, store>>

\* A source yields an item and the caller stores it with upsert_item.
UpsertItem(r, source_id, val) ==
    /\ writes < MaxWritesIngest
    /\ Existing(db[r], source_id) # {} \/ AutoId(db[r]) \in RowIds
    /\ db' = [db EXCEPT ![r] = upsert_item(db[r], source_id, val, val)]
    /\ db'[r] # db[r]
    /\ resp' = [NoResp EXCEPT !.op = "upsert", !.replica = r,
                              !.pre_version = get_db_version(db[r]),
                              !.db_version = get_db_version(db'[r])]
    /\ writes' = writes + 1
    /\ UNCHANGED <<wire, file, conc, store>>

\* GET /sync/changes?since=<since> on the server of replica p: wire keeps
\* the list get_changes_since returned, ChangesResponse is the body sent.
sync_changes(p, since) ==
    /\ \E changes \in get_changes_since(db[p], since, <<>>) :
         wire' = [pulled |-> TRUE, src |-> p, since |-> since, changes |-> changes]
    /\ resp' = [NoResp EXCEPT !.op = "pull", !.replica = p,
                              !.pre_version = get_db_version(db[p]),
                              !.db_version = get_db_version(db[p])]
    /\ UNCHANGED <<db, writes, file, conc, store>>

ChangesResponse(changes) ==
    [i \in 1..Len(changes) |-> _serialize_change(changes[i])]

\* A change list one of whose records is malformed.
BadRecord(ch, kind) ==
    CASE kind = "table" -> [ch EXCEPT !.table = "ghost"]
      [] kind = "column" -> [ch EXCEPT !.cid = "ghost"]
      [] kind = "site_id" -> [ch EXCEPT !.site_id = <<NotHexChar, NotHexChar>>]
      [] kind = "missing" -> [k \in DOMAIN ch \ {"site_id"} |-> ch[k]]
      [] OTHER -> ch

BadKinds == {"table", "column", "site_id"}

WithBad(changes, bad) ==
    [i \in 1..Len(changes) |->
        IF i = bad[1] THEN BadRecord(changes[i], bad[2]) ELSE changes[i]]

\* What a peer can send from the list it pulled: the list itself, or the
\* list with its first or its last record malformed.
BadChoices ==
    {<<0, "none">>} \cup ({i \in {1, Len(wire.changes)} : i >= 1} \X BadKinds)

\* The body of a POST /sync/changes that sends the pulled list.
PostBody(w, bad) == WithBad(ChangesResponse(w.changes), bad)

\* The handler reading the db_version before it applies the changes.
PostResult_VersionBeforeApply(d, body, fts_engine) ==
    LET deserialized == [i \in 1..Len(body) |-> _deserialize_change(body[i])]
        res == apply_changes(d, deserialized)
    IN IF res.outcome = "raised"
       THEN [status |-> "raised", db |-> d, applied |-> 0, db_version |-> 0]
       ELSE LET after == IF res.applied > 0 THEN rebuild_fts_index(res.db, fts_engine) ELSE res.db
            IN [status |-> "ok", db |-> after, applied |-> res.applied,
                db_version |-> get_db_version(d)]

\* POST /sync/changes on the server of a replica whose database is d.  An
\* exception leaving apply_changes leaves the with block too:
\* get_crdt_connection closes the connection with the transaction
\* uncommitted, and the request fails.
PostResult(d, body, fts_engine) ==
    LET deserialized == [i \in 1..Len(body) |-> _deserialize_change(body[i])]
        res == apply_changes(d, deserialized)
    IN IF res.outcome = "raised"
       THEN [status |-> "raised", db |-> d, applied |-> 0, db_version |-> 0]
       ELSE LET after == IF res.applied > 0 THEN rebuild_fts_index(res.db, fts_engine) ELSE res.db
            IN [status |-> "ok", db |-> after, applied |-> res.applied,
                db_version |-> get_db_version(after)]

PostChanges(r, bad, fts_engine) ==
    /\ wire.pulled
    /\ bad \in BadChoices
    /\ LET out == PostResult(db[r], PostBody(wire, bad), fts_engine)
       IN /\ db' = [db EXCEPT ![r] = out.db]
          /\ resp' = [NoResp EXCEPT !.op = "push", !.replica = r, !.bad = bad,
                                    !.status = out.status, !.applied = out.applied,
                                    !.db_version = out.db_version,
                                    !.pre_version = get_db_version(db[r]),
                                    !.won = Cardinality(Replaced(db[r], out.db)),
                                    !.replay = /\ resp.op = "push"
                                               /\ resp.replica = r
                                               /\ resp.bad = bad
                                               /\ resp.status = "ok"]
    /\ UNCHANGED <<wire, writes, file, conc, store>>

Clean == <<0, "none">>

\* GET /sync/changes on the server of replica p, whose SELECT may fail.
PullRequest(p, since, sqlite_error) ==
    /\ \E changes \in GetChangesOrError(db[p], since, sqlite_error) :
         wire' = [pulled |-> TRUE, src |-> p, since |-> since, changes |-> changes]
    /\ resp' = [NoResp EXCEPT !.op = "pull", !.replica = p,
                              !.error = IF sqlite_error THEN "sqlite3.Error" ELSE "none",
                              !.since = since,
                              !.pre_version = get_db_version(db[p]),
                              !.db_version = get_db_version(db[p])]
    /\ UNCHANGED <<db, writes, file, conc, store>>

\* The JSON bodies a client can post: the pulled list as it is, the list
\* with its last record malformed, or a body without the changes list.
RequestKinds == {"none", "nolist", "missing", "site_id", "table"}

RequestBody(w, kind) ==
    IF kind = "nolist" THEN [has_changes |-> FALSE, changes |-> <<>>]
    ELSE [has_changes |-> TRUE,
          changes |-> WithBad(ChangesResponse(w.changes), <<Len(w.changes), kind>>)]

\* ApplyChangesRequest: the body must hold a list of dicts under "changes";
\* the dicts themselves are not validated.
ApplyChangesRequest(request) == request.has_changes

\* POST /sync/changes with request validation: a body that fails it is
\* answered by the framework and the handler does not run.
post_sync_changes(d, request, fts_engine) ==
    IF ~ApplyChangesRequest(request)
    THEN [status |-> "invalid", db |-> d, applied |-> 0, db_version |-> 0]
    ELSE PostResult(d, request.changes, fts_engine)

\* The HTTP status code of an answer: 422 for a body that fails validation,
\* 500 for an exception that leaves the handler.
StatusCode(status) ==
    CASE status = "ok" -> 200
      [] status = "invalid" -> 422
      [] OTHER -> 500

PostRequest(r, kind, fts_engine) ==
    /\ wire.pulled
    /\ kind \notin {"none", "nolist"} => wire.changes # <<>>
    /\ LET out == post_sync_changes(db[r], RequestBody(wire, kind), fts_engine)
       IN /\ db' = [db EXCEPT ![r] = out.db]
          /\ resp' = [NoResp EXCEPT !.op = "push", !.replica = r,
                                    !.bad = <<Len(wire.changes), kind>>,
                                    !.status = out.status, !.applied = out.applied,
                                    !.db_version = out.db_version,
                                    !.pre_version = get_db_version(db[r]),
                                    !.won = Cardinality(Replaced(db[r], out.db))]
    /\ UNCHANGED <<wire, writes, file, conc, store>>

\* lestash sync export on replica r.
ExportCommand(r, since) ==
    /\ \E out \in export_changes(db[r], file, since) :
          /\ file' = out.file
          /\ resp' = [NoResp EXCEPT !.op = "export", !.replica = r,
                                    !.status = out.status, !.error = out.error,
                                    !.applied = out.change_count,
                                    !.db_version = out.db_version,
                                    !.pre_version = get_db_version(db[r]),
                                    !.since = since]
    /\ UNCHANGED <<db, wire, writes, conc, store>>

\* The file is written by something other than the export command: a tool
\* that saves the changes it pulled, hex text for binary fields, under the
\* format tag or under another one; or the file is damaged or removed.
FileKinds == {"v1", "wrong-format", "garbage", "missing"}

WrittenFile(kind, w) ==
    CASE kind = "missing" -> NoFile
      [] kind = "garbage" -> [NoFile EXCEPT !.kind = "garbage"]
      [] OTHER -> [NoFile EXCEPT !.kind = "json",
                                 !.format = IF kind = "v1" THEN FORMAT ELSE kind,
                                 !.since_version = w.since,
                                 !.change_count = Len(w.changes),
                                 !.changes = ChangesResponse(w.changes)]

WriteFile(kind) ==
    /\ kind \in {"v1", "wrong-format"} => wire.pulled
    /\ file' = WrittenFile(kind, wire)
    /\ file' # file
    /\ resp' = [NoResp EXCEPT !.op = "write"]
    /\ UNCHANGED <<db, wire, writes, conc, store>>

\* lestash sync import on replica r.
ImportCommand(r, rebuild_fts, reading, fts_engine) ==
    /\ LET out == import_changes(db[r], file, rebuild_fts, reading, fts_engine)
       IN /\ db' = [db EXCEPT ![r] = out.db]
          /\ resp' = [NoResp EXCEPT !.op = "import", !.replica = r,
                                    !.flag = rebuild_fts,
                                    !.status = out.status, !.error = out.error,
                                    !.applied = out.applied,
                                    !.db_version = get_db_version(out.db),
                                    !.pre_version = get_db_version(db[r]),
                                    !.won = Cardinality(Replaced(db[r], out.db))]
    /\ UNCHANGED <<wire, writes, file, conc, store>>

\* A direct call of rebuild_fts_index on the database of replica r.
RebuildFts(r, fts_engine) ==
    /\ db' = [db EXCEPT ![r] = rebuild_fts_index(db[r], fts_engine)]
    /\ resp' = [NoResp EXCEPT !.op = "rebuild", !.replica = r,
                              !.applied = RebuildCount(db[r], fts_engine),
                              !.pre_version = get_db_version(db[r]),
                              !.db_version = get_db_version(db[r])]
    /\ UNCHANGED <<wire, writes, file, conc, store>>

\* Replicas write locally, pull and push well-formed change lists, on an
\* SQLite whose index rebuild succeeds.
Next ==
    \/ \E r \in Replicas, id \in RowIds, v \in Vals : LocalInsert(r, id, v)
    \/ \E r \in Replicas, id \in RowIds, cid \in UpdatedCols, v \in Vals :
          LocalUpdate(r, id, cid, v)
    \/ \E p \in Replicas, since \in 0..MaxSince : sync_changes(p, since)
    \/ \E r \in Replicas : PostChanges(r, Clean, "rebuilds")

Spec == Init /\ [][Next]_vars

\* The same, with peers that also push change lists holding a malformed
\* record.
NextBad ==
    \/ \E r \in Replicas, id \in RowIds, v \in Vals :
          writes < MaxWritesBad /\ LocalInsert(r, id, v)
    \/ \E r \in Replicas, id \in RowIds, cid \in UpdatedCols, v \in Vals :
          writes < MaxWritesBad /\ LocalUpdate(r, id, cid, v)
    \/ \E p \in Replicas, since \in 0..MaxSince : sync_changes(p, since)
    \/ \E r \in Replicas, bad \in BadChoices : PostChanges(r, bad, "rebuilds")

SpecBad == Init /\ [][NextBad]_vars

\* Replicas insert, update and delete one row and push each other their
\* changes.
NextDel ==
    \/ \E r \in Replicas, v \in Vals : LocalInsert(r, 1, v)
    \/ \E r \in Replicas, cid \in UpdatedCols, v \in Vals : LocalUpdate(r, 1, cid, v)
    \/ \E r \in Replicas : LocalDelete(r, 1)
    \/ \E p \in Replicas : sync_changes(p, 0)
    \/ \E r \in Replicas : PostChanges(r, Clean, "rebuilds")

SpecDel == Init /\ [][NextDel]_vars

\* Replicas create items with explicit ids and with ids the database
\* assigns, and push each other their changes.
NextIngest ==
    \/ \E r \in Replicas, id \in RowIds, v \in Vals : LocalInsert(r, id, v)
    \/ \E r \in Replicas, sid \in SourceIds, v \in Vals : InsertAuto(r, sid, v)
    \/ \E p \in Replicas : sync_changes(p, 0)
    \/ \E r \in Replicas : PostChanges(r, Clean, "rebuilds")

SpecIngest == Init /\ [][NextIngest]_vars

\* Replicas store the items their sources yield with upsert_item and push
\* each other their changes.
NextUpsert ==
    \/ \E r \in Replicas, sid \in SourceIds, v \in Vals : UpsertItem(r, sid, v)
    \/ \E p \in Replicas : sync_changes(p, 0)
    \/ \E r \in Replicas : PostChanges(r, Clean, "rebuilds")

SpecUpsert == Init /\ [][NextUpsert]_vars

\* Replicas write locally and exchange changes over HTTP and through the
\* sync file.
NextFile ==
    \/ \E r \in Replicas, id \in RowIds, v \in Vals :
          writes < MaxWritesFile /\ LocalInsert(r, id, v)
    \/ \E p \in Replicas, since \in 0..MaxSince : sync_changes(p, since)
    \/ \E r \in Replicas, fts_engine \in FtsEngines : PostChanges(r, Clean, fts_engine)
    \/ \E r \in Replicas, since \in 0..MaxSince : ExportCommand(r, since)
    \/ \E kind \in FileKinds : WriteFile(kind)
    \/ \E r \in Replicas, rebuild_fts \in BOOLEAN, reading \in EngineReadings,
          fts_engine \in FtsEngines :
          ImportCommand(r, rebuild_fts, reading, fts_engine)
    \/ \E r \in Replicas, fts_engine \in FtsEngines : RebuildFts(r, fts_engine)

SpecFile == Init /\ [][NextFile]_vars

\* Replicas write locally; clients pull, with reads that may fail, and post
\* well-formed and malformed bodies.
NextErr ==
    \/ \E r \in Replicas, id \in RowIds, v \in Vals :
          writes < MaxWritesErr /\ LocalInsert(r, id, v)
    \/ \E p \in Replicas, since \in 0..MaxSince, sqlite_error \in BOOLEAN :
          PullRequest(p, since, sqlite_error)
    \/ \E r \in Replicas, kind \in RequestKinds, fts_engine \in FtsEngines :
          PostRequest(r, kind, fts_engine)

SpecErr == Init /\ [][NextErr]_vars

(***************************************************************************)
(* Requests that overlap in time on one database file                      *)
(***************************************************************************)
Ops == {"push", "write", "export", "pull"}

\* The step a request takes first on its connection.
FirstStep(op) ==
    CASE op \in {"push", "write"} -> "begin"
      [] op = "export" -> "version"
      [] OTHER -> "changes"

\* A request arrives: a POST /sync/changes with a body, a local write, a
\* `sync export`, or a GET /sync/changes.
StartRequest(p, op, since, body) ==
    /\ conc.started < MaxRequests
    /\ conc.procs[p].pc \in {"idle", "done"}
    /\ conc' = [conc EXCEPT !.started = @ + 1,
                            !.procs[p] = [NoProc EXCEPT !.op = op, !.pc = "open",
                                                        !.since = since,
                                                        !.body = body]]
    /\ UNCHANGED <<db, wire, resp, writes, file, store>>

\* get_crdt_connection up to its yield.  load_failed: load_extension
\* returned False; the connection is closed and RuntimeError raised.
\* migration_failed: the file is of an older schema version and
\* apply_migrations raised; the exception leaves the generator before its
\* try block.  ok: pending migrations are applied and the body runs.
ConnectOutcomes == {"ok", "load_failed", "migration_failed"}

get_crdt_connection(p, outcome) ==
    /\ conc.procs[p].pc = "open"
    /\ outcome = "migration_failed" => conc.schema_version < SCHEMA_VERSION
    /\ conc' =
         CASE outcome = "load_failed" ->
                [conc EXCEPT !.procs[p].conn_open = FALSE,
                             !.procs[p].status = "RuntimeError",
                             !.procs[p].pc = "done"]
           [] outcome = "migration_failed" ->
                [conc EXCEPT !.procs[p].conn_open = TRUE,
                             !.procs[p].status = "error",
                             !.procs[p].pc = "done"]
           [] OTHER ->
                [conc EXCEPT !.schema_version = SCHEMA_VERSION,
                             !.procs[p].conn_open = TRUE,
                             !.procs[p].pc = FirstStep(conc.procs[p].op)]
    /\ UNCHANGED <<db, wire, resp, writes, file, store>>

\* The first writing statement of a request takes the write lock of the
\* file and the request runs its statements on a working copy.  A push
\* with an empty body executes no statement.
BeginWrite(p, id, val) ==
    LET me == conc.procs[p]
        d == db[Server]
    IN /\ me.pc = "begin"
       /\ conc.lock = 0
       /\ IF me.op = "push"
          THEN LET deserialized == [i \in 1..Len(me.body) |->
                                       _deserialize_change(me.body[i])]
                   res == apply_changes(d, deserialized)
               IN /\ conc' = [conc EXCEPT !.lock = IF Len(me.body) > 0 THEN p ELSE 0,
                                          !.procs[p].tx = res.db,
                                          !.procs[p].applied = res.applied,
                                          !.procs[p].pc = "commit"]
                  /\ UNCHANGED writes
          ELSE /\ writes < MaxWritesConc
               /\ conc' = [conc EXCEPT !.lock = p,
                                       !.procs[p].tx =
                                           IF RowExists(d, id)
                                           THEN UpdateItem(d, id, "title", val)
                                           ELSE InsertItem(d, id, val, val),
                                       !.procs[p].pc = "commit"]
               /\ writes' = writes + 1
       /\ UNCHANGED <<db, wire, resp, file, store>>

\* Another connection holds the write lock for longer than the busy
\* timeout: the statement raises sqlite3.OperationalError (database is
\* locked).  apply_changes catches it as sqlite3.Error, rolls back and
\* returns 0; a local write lets it propagate.
DatabaseLocked(p) ==
    LET me == conc.procs[p]
    IN /\ me.pc = "begin"
       /\ conc.lock \notin {0, p}
       /\ me.op = "push" => Len(me.body) > 0
       /\ conc' = IF me.op = "push"
                  THEN [conc EXCEPT !.procs[p].applied = 0,
                                    !.procs[p].pc = "version"]
                  ELSE [conc EXCEPT !.procs[p].status = "OperationalError",
                                    !.procs[p].pc = "close"]
       /\ UNCHANGED <<db, wire, resp, writes, file, store>>

\* conn.commit(): the working copy becomes the committed database and the
\* lock is released.
CommitWrite(p) ==
    LET me == conc.procs[p]
    IN /\ me.pc = "commit"
       /\ db' = [db EXCEPT ![Server] = me.tx]
       /\ conc' = [conc EXCEPT !.lock = 0,
                               !.procs[p].pc =
                                   IF me.op = "push"
                                   THEN IF me.applied > 0 THEN "rebuild" ELSE "version"
                                   ELSE "close"]
       /\ UNCHANGED <<wire, resp, writes, file, store>>

\* if applied > 0: rebuild_fts_index(conn), a write transaction of its
\* own; with the database locked it logs the error and returns 0.
RebuildIndex(p, fts_engine) ==
    /\ conc.procs[p].pc = "rebuild"
    /\ db' = IF conc.lock = 0
             THEN [db EXCEPT ![Server] = rebuild_fts_index(db[Server], fts_engine)]
             ELSE db
    /\ conc' = [conc EXCEPT !.procs[p].pc = "version"]
    /\ UNCHANGED <<wire, resp, writes, file, store>>

\* get_db_version(conn), a statement of its own: the last line of the push
\* handler, and the second line of export_changes_to_file.
ReadDbVersion(p) ==
    LET me == conc.procs[p]
    IN /\ me.pc = "version"
       /\ conc' = IF me.op = "push"
                  THEN [conc EXCEPT !.procs[p].db_version = get_db_version(db[Server]),
                                    !.procs[p].pc = "close"]
                  ELSE [conc EXCEPT !.procs[p].version = get_db_version(db[Server]),
                                    !.procs[p].pc = "changes"]
       /\ UNCHANGED <<db, wire, resp, writes, file, store>>

\* get_changes_since(conn, since), one SELECT: the third line of
\* export_changes_to_file, and the body of GET /sync/changes.
ReadChanges(p, changes) ==
    LET me == conc.procs[p]
    IN /\ me.pc = "changes"
       /\ changes \in get_changes_since(db[Server], me.since, <<>>)
       /\ conc' = [conc EXCEPT !.procs[p].changes = changes,
                               !.procs[p].pc = IF me.op = "export" THEN "write"
                                               ELSE "close"]
       /\ UNCHANGED <<db, wire, resp, writes, file, store>>

\* The dict export_changes_to_file has built when it writes the file.
ExportDataOf(me) == ExportData(db[Server].site_id, me.version, me.since, me.changes)

\* output_path.write_text(json.dumps(export_data))
WriteExportFile(p) ==
    LET me == conc.procs[p]
        out == WriteExport(file, ExportDataOf(me))
    IN /\ me.pc = "write"
       /\ file' = out.file
       /\ conc' = [conc EXCEPT !.procs[p].status = out.error,
                               !.procs[p].pc = "close"]
       /\ UNCHANGED <<db, wire, resp, writes, store>>

\* The finally of get_crdt_connection: finalize_connection(conn) and
\* conn.close(); then the request answers.
CloseConnection(p) ==
    LET me == conc.procs[p]
    IN /\ me.pc = "close"
       /\ conc' = [conc EXCEPT !.procs[p].finalized = TRUE,
                               !.procs[p].conn_open = FALSE,
                               !.procs[p].status = IF me.status \in {"none", "ok"}
                                                   THEN "ok" ELSE me.status,
                               !.procs[p].pc = "done"]
       /\ UNCHANGED <<db, wire, resp, writes, file, store>>

\* The file may have been created by an earlier release.
InitConc ==
    /\ db = [r \in Replicas |-> EmptyDb(r)]
    /\ wire = NoWire
    /\ resp = NoResp
    /\ writes = 0
    /\ file = NoFile
    /\ \E v \in {SCHEMA_VERSION - 1, SCHEMA_VERSION} :
          conc = [NoConc EXCEPT !.schema_version = v]
    /\ store = CurrentStore

\* The peer writes; requests on the server's file overlap.
NextConc ==
    \/ \E id \in RowIds, v \in Vals :
          writes < MaxWritesConc /\ LocalInsert(Peer, id, v)
    \/ \E p \in Procs, op \in Ops, since \in 0..MaxSince,
          changes \in get_changes_since(db[Peer], 0, <<>>) :
          StartRequest(p, op,
                       IF op \in {"export", "pull"} THEN since ELSE 0,
                       IF op = "push" THEN ChangesResponse(changes) ELSE <<>>)
    \/ \E p \in Procs, outcome \in ConnectOutcomes : get_crdt_connection(p, outcome)
    \/ \E p \in Procs, id \in RowIds, v \in Vals : BeginWrite(p, id, v)
    \/ \E p \in Procs : DatabaseLocked(p)
    \/ \E p \in Procs : CommitWrite(p)
    \/ \E p \in Procs, fts_engine \in FtsEngines : RebuildIndex(p, fts_engine)
    \/ \E p \in Procs : ReadDbVersion(p)
    \/ \E p \in Procs, changes \in get_changes_since(db[Server], 0, <<>>)
                                    \cup get_changes_since(db[Server], MaxSince, <<>>) :
          ReadChanges(p, changes)
    \/ \E p \in Procs : WriteExportFile(p)
    \/ \E p \in Procs : CloseConnection(p)

SpecConc == InitConc /\ [][NextConc]_vars

(***************************************************************************)
(* Commands on one database file, seen at the level of its schema          *)
(***************************************************************************)
\* The file is one an earlier release left, or does not exist yet.
InitSchema ==
    /\ db = [r \in Replicas |-> EmptyDb(r)]
    /\ wire = NoWire
    /\ resp = NoResp
    /\ writes = 0
    /\ file = NoFile
    /\ conc = NoConc
    /\ store \in OldStores \cup {MissingStore}

\* with get_connection(config) / get_crdt_connection(config): ...
Connect ==
    /\ writes < MaxSchemaOps
    /\ LET res == Connected(store)
       IN store' = [res.s EXCEPT !.last = [NoLast EXCEPT !.op = "connect",
                                                         !.applied = res.applied]]
    /\ writes' = writes + 1
    /\ UNCHANGED <<db, wire, resp, file, conc>>

\* apply_migrations(conn) called again on the connection get_connection
\* gave, as the tests do.
ApplyMigrations ==
    /\ writes < MaxSchemaOps
    /\ LET res == apply_migrations(Connected(store).s, TRUE)
       IN store' = [res.s EXCEPT !.last = [NoLast EXCEPT !.op = "migrate",
                                                         !.applied = res.applied]]
    /\ writes' = writes + 1
    /\ UNCHANGED <<db, wire, resp, file, conc>>

\* upgrade_to_crr(conn, table) on a connection on which load_extension was
\* called.
UpgradeToCrr(t) ==
    /\ writes < MaxSchemaOps
    /\ store.tables # {}
    /\ LET res == upgrade_to_crr(store, t)
       IN store' = [res.s EXCEPT !.last = [NoLast EXCEPT !.op = "upgrade",
                                                         !.table = t,
                                                         !.ok = res.ok,
                                                         !.again = t \in store.crr]]
    /\ writes' = writes + 1
    /\ UNCHANGED <<db, wire, resp, file, conc>>

\* lestash sync setup, step 2: a CRDT connection, then every sync table is
\* upgraded.
SetupSync ==
    /\ writes < MaxSchemaOps
    /\ LET res == Connected(store)
       IN store' = [SetupLoop(res.s, 1) EXCEPT
                       !.last = [NoLast EXCEPT !.op = "setup",
                                               !.applied = res.applied]]
    /\ writes' = writes + 1
    /\ UNCHANGED <<db, wire, resp, file, conc>>

\* A row is written to a sync table through a connection.
WriteTable(t) ==
    /\ writes < MaxSchemaOps
    /\ t \in store.tables
    /\ t = "items" => store.items # ItemIds
    /\ store' = [WriteRow(Connected(store).s, t) EXCEPT
                    !.last = [NoLast EXCEPT !.op = "write", !.table = t]]
    /\ writes' = writes + 1
    /\ UNCHANGED <<db, wire, resp, file, conc>>

\* An item is updated through a connection.
UpdateStoredItem(id) ==
    /\ writes < MaxSchemaOps
    /\ id \in store.items
    /\ store' = [UpdateWithHistory(Connected(store).s, id) EXCEPT
                    !.last = [NoLast EXCEPT !.op = "update", !.table = "items"]]
    /\ writes' = writes + 1
    /\ UNCHANGED <<db, wire, resp, file, conc>>

\* lestash sources sync <name>, the plugin yielding n items without error.
SyncSource(n) ==
    /\ writes < MaxSchemaOps
    /\ LET res == Connected(store)
       IN store' = [sync_source(res.s, n) EXCEPT
                       !.last = [NoLast EXCEPT !.op = "source",
                                               !.applied = res.applied,
                                               !.yielded = n]]
    /\ writes' = writes + 1
    /\ UNCHANGED <<db, wire, resp, file, conc>>

NextSchema ==
    \/ Connect
    \/ ApplyMigrations
    \/ \E t \in AllSyncTables : UpgradeToCrr(t)
    \/ SetupSync
    \/ \E t \in AllSyncTables : WriteTable(t)
    \/ \E id \in ItemIds : UpdateStoredItem(id)
    \/ \E n \in 1..2 : SyncSource(n)

SpecSchema == InitSchema /\ [][NextSchema]_vars

(***************************************************************************)
(* Properties                                                              *)
(***************************************************************************)
A == "A"
B == "B"

ListSet(q) == {q[i] : i \in 1..Len(q)}

\* The table contents two replicas are compared on.
Contents(d) == d.rows

\* What replica r becomes when it is pushed the changes of database d.
PushedFrom(target, d) ==
    {PostResult(target, ChangesResponse(changes), "rebuilds").db :
        changes \in get_changes_since(d, 0, <<>>)}

\* C1: convergence.  From every state the two replicas can reach by local
\* writes (and earlier syncs), once each has applied the other's changes
\* since version 0, both hold the same value in every row and column: when
\* both export first and then apply, and when one applies first and the
\* other then applies the export of the merged state, in either order.
C1_Convergence ==
    /\ \A a1 \in PushedFrom(db[A], db[B]), b1 \in PushedFrom(db[B], db[A]) :
          /\ Contents(a1) = Contents(b1)
          /\ \A b2 \in PushedFrom(db[B], a1) : Contents(b2) = Contents(a1)
          /\ \A a2 \in PushedFrom(db[A], b1) : Contents(a2) = Contents(b1)

\* Both replicas wrote their own row, the last operation was a push, and
\* the replicas now agree on both rows.
C1_Witness ==
    /\ resp.op = "push" /\ resp.won > 0
    /\ Contents(db[A]) = Contents(db[B])
    /\ \E c1, c2 \in Cells :
          /\ db[A].clock[c1].site_id = SiteIdOf(A)
          /\ db[A].clock[c2].site_id = SiteIdOf(B)

\* The ledger records of d after version since, as get_changes_since
\* reports them.
After(d, since) ==
    {ChangeDict(row) : row \in {x \in CrsqlChanges(d) : x.db_version > since}}

\* C5: watermark exclusivity.  A pull with since = V returns exactly the
\* ledger records with db_version > V, each once, in ascending
\* (db_version, seq) order, and nothing when V is the current db_version;
\* the body GET /sync/changes sends carries the same versions.
C5_Watermark ==
    resp.op = "pull" =>
      LET d == db[wire.src]
          q == wire.changes
          body == ChangesResponse(q)
      IN /\ ListSet(q) = After(d, wire.since)
         /\ Len(q) = Cardinality(After(d, wire.since))
         /\ \A i \in 1..Len(q) : q[i].db_version > wire.since
         /\ \A i, j \in 1..Len(q) : i < j => OrderLeq(q[i], q[j])
         /\ wire.since = get_db_version(d) => q = <<>>
         /\ \A i \in 1..Len(q) : /\ body[i].db_version = q[i].db_version
                                 /\ body[i].seq = q[i].seq

\* A pull with since > 0 that returned some records and held others back.
C5_Witness ==
    /\ resp.op = "pull" /\ wire.since > 0 /\ wire.changes # <<>>
    /\ \E row \in CrsqlChanges(db[wire.src]) : row.db_version <= wire.since

\* The last operation was a push to replica r that returned normally.
Pushed(r) == resp.op = "push" /\ resp.replica = r /\ resp.status = "ok"

\* C2: idempotent replay.  Pushing to a replica the change list that was
\* just pushed to it leaves its table contents exactly as they were.
C2_IdempotentReplay ==
    [][\A r \in Replicas :
          (Pushed(r) /\ Pushed(r)' /\ resp'.replay)
             => Contents(db'[r]) = Contents(db[r])]_vars

\* The replay of a list the first push of which had replaced cells.
C2_Witness ==
    /\ resp.op = "push" /\ resp.replay /\ resp.status = "ok"
    /\ wire.changes # <<>>
    /\ \E i \in 1..Len(wire.changes) :
          LET ch == wire.changes[i]
              cell == <<UnpackPk(ch.pk.v), ch.cid>>
          IN /\ db[resp.replica].clock[cell].col_version = ch.col_version
             /\ Hex(db[resp.replica].clock[cell].site_id) = ch.site_id
             /\ db[resp.replica].site_id # db[resp.replica].clock[cell].site_id

\* The cell a change record is about, and whether the record outranks the
\* clock entry a replica holds for the cell.
CellOf(ch) == <<UnpackPk(ch.pk.v), ch.cid>>

Outranks(ch, local) ==
    \/ local = NoEntry
    \/ ch.col_version > local.col_version
    \/ ch.col_version = local.col_version /\ BytesLess(local.site_id, FromHex(ch.site_id))

\* The cell holds the record: its value, col_version and site_id.
Holds(d, ch) ==
    /\ d.rows[CellOf(ch)[1]][ch.cid] = ch.val
    /\ d.clock[CellOf(ch)].col_version = ch.col_version
    /\ d.clock[CellOf(ch)].site_id = FromHex(ch.site_id)

\* C3: the winner rule.  After a push, the cell of every pushed record holds
\* the record if and only if the record outranked what the cell held (no
\* record, a smaller col_version, or an equal col_version and a smaller
\* site_id); otherwise the cell and its clock are as before.  The
\* db_versions of the two records play no part.
C3_WinnerRule ==
    [][\A r \in Replicas :
          (Pushed(r)' /\ resp'.bad = Clean) =>
             \A i \in 1..Len(wire.changes) :
                LET ch == wire.changes[i]
                    c == CellOf(ch)
                IN IF Outranks(ch, db[r].clock[c])
                   THEN Holds(db'[r], ch)
                   ELSE /\ db'[r].clock[c] = db[r].clock[c]
                        /\ db'[r].rows[c[1]][c[2]] = db[r].rows[c[1]][c[2]]]_vars

\* A push one record of which won on a greater col_version against a cell
\* the replica had written itself, while another record of it lost.
C3_Witness ==
    /\ resp.op = "push" /\ resp.status = "ok"
    /\ resp.won > 0 /\ resp.won < Len(wire.changes)
    /\ \E i \in 1..Len(wire.changes) :
          /\ Holds(db[resp.replica], wire.changes[i])
          /\ wire.changes[i].col_version > 1
          /\ FromHex(wire.changes[i].site_id) # db[resp.replica].site_id

\* The value and clock of a cell after a list of records is applied.
CellAfter(d, changes, c) ==
    LET res == apply_changes(d, changes).db
    IN <<res.rows[c[1]][c[2]], res.clock[c].col_version, res.clock[c].site_id>>

\* Two records of the same cell with equal col_version and different
\* site_id, one held by each of two replicas.
Ties ==
    {pair \in (After(db[A], 0) \X After(db[B], 0)) :
        /\ CellOf(pair[1]) = CellOf(pair[2])
        /\ pair[1].col_version = pair[2].col_version
        /\ pair[1].site_id # pair[2].site_id}

\* C4: deterministic tie-break.  For two records of a cell with equal
\* col_version and different site_id, every replica that merges both ends
\* with the same value in the cell whichever record it receives first, and
\* the replicas agree with each other: the value is the one of the record
\* with the greater site_id.
C4_TieBreak ==
    \A pair \in Ties :
       LET x == pair[1]
           y == pair[2]
           c == CellOf(x)
           top == IF BytesLess(FromHex(x.site_id), FromHex(y.site_id)) THEN y ELSE x
       IN \A r \in Replicas :
             /\ CellAfter(db[r], <<x, y>>, c) = CellAfter(db[r], <<y, x>>, c)
             /\ CellAfter(db[r], <<x, y>>, c) = <<top.val, top.col_version, FromHex(top.site_id)>>

\* A push delivered a record that tied with the cell of the receiving
\* replica, which kept its own record of the same col_version.
C4_Witness ==
    /\ resp.op = "push" /\ resp.status = "ok"
    /\ \E i \in 1..Len(wire.changes) :
          LET ch == wire.changes[i]
              local == db[resp.replica].clock[CellOf(ch)]
          IN /\ local.col_version = ch.col_version
             /\ local.site_id # FromHex(ch.site_id)
             /\ db[resp.replica].rows[CellOf(ch)[1]][ch.cid] # ch.val

\* C6 as stated: a push never changes the db_version of the replica; the
\* db_version it reports is the one before the push.
C6_DbVersionUnchangedByApply ==
    (resp.op = "push" /\ resp.status = "ok") => resp.db_version = resp.pre_version

\* C6 as amended: a push leaves the db_version as it was when none of its
\* records wins and reports a strictly greater one when a record wins; the
\* clock of every cell no record won is as before, col_version included.
C6_DbVersionAdvancesOnlyOnWin ==
    [][\A r \in Replicas :
          Pushed(r)' =>
             /\ resp'.db_version = get_db_version(db'[r])
             /\ resp'.pre_version = get_db_version(db[r])
             /\ Replaced(db[r], db'[r]) = {} => get_db_version(db'[r]) = get_db_version(db[r])
             /\ Replaced(db[r], db'[r]) # {} => get_db_version(db'[r]) > get_db_version(db[r])
             /\ \A c \in Cells :
                   (\A i \in 1..Len(wire.changes) :
                       CellOf(wire.changes[i]) = c => ~Outranks(wire.changes[i], db[r].clock[c]))
                     => db'[r].clock[c] = db[r].clock[c]]_vars

\* A push to a replica with writes of its own, one record of which won
\* while a cell the replica wrote itself kept its clock.
C6_Witness ==
    /\ resp.op = "push" /\ resp.status = "ok" /\ resp.won > 0
    /\ resp.pre_version > 0
    /\ resp.db_version > resp.pre_version
    /\ \E c \in Cells : /\ db[resp.replica].clock[c].site_id = db[resp.replica].site_id
                        /\ db[resp.replica].clock[c].col_version = 2

\* C7: the records a push applies enter the ledger of the receiving replica
\* at db_versions strictly greater than its db_version before the push:
\* when a record wins, the db_version the push reports is greater than the
\* one before, and a pull with since equal to the db_version before the
\* push returns every record that won, with the pushed value.
C7_PushedChangesEnterLedger ==
    [][\A r \in Replicas :
          (Pushed(r)' /\ resp'.bad = Clean) =>
             /\ resp'.won > 0 => resp'.db_version > resp'.pre_version
             /\ \A i \in 1..Len(wire.changes) :
                   LET ch == wire.changes[i]
                   IN Outranks(ch, db[r].clock[CellOf(ch)]) =>
                        /\ db'[r].clock[CellOf(ch)].db_version > get_db_version(db[r])
                        /\ \A q \in get_changes_since(db'[r], get_db_version(db[r]), <<>>) :
                              \E j \in 1..Len(q) :
                                 /\ q[j].pk = ch.pk /\ q[j].cid = ch.cid
                                 /\ q[j].val = ch.val
                                 /\ q[j].col_version = ch.col_version
                                 /\ q[j].site_id = ch.site_id]_vars

\* A push of records written at db_version 1 to a replica that was itself
\* at db_version 1 or later; the records won.
C7_Witness ==
    /\ resp.op = "push" /\ resp.status = "ok"
    /\ resp.won = Len(wire.changes) /\ resp.won > 0
    /\ resp.pre_version >= 1
    /\ \A i \in 1..Len(wire.changes) : wire.changes[i].db_version <= resp.pre_version

\* C8 as stated: the applied count of a push is the number of records that
\* won against the local state, so that a replay reports 0.
C8_AppliedCountsWinners ==
    (resp.op = "push" /\ resp.status = "ok" /\ resp.bad = Clean)
       => resp.applied = resp.won

\* The last operation pushed a list the record bad[1] of which names an
\* unknown table or column.
UnknownName(x) == x.op = "push" /\ x.bad[2] \in {"table", "column"}

\* C9 as stated: a malformed record (unknown table or column) among valid
\* records is skipped, every valid record of the batch is still applied,
\* and the batch succeeds.
C9_MalformedSkipped ==
    UnknownName(resp) =>
       /\ resp.status = "ok"
       /\ \A i \in 1..Len(wire.changes) :
             i # resp.bad[1] =>
                ~Outranks(wire.changes[i], db[resp.replica].clock[CellOf(wire.changes[i])])

\* C9 as amended: a batch that holds a record with an unknown table or
\* column is rolled back as a whole: the push returns applied = 0, none of
\* the valid records of the batch is applied, and the database, its
\* db_version included, is as before.
C9_MalformedAbortsBatch ==
    [][UnknownName(resp)' =>
          /\ resp'.status = "ok"
          /\ resp'.applied = 0
          /\ resp'.db_version = resp'.pre_version
          /\ db' = db]_vars

\* A batch whose last record is malformed and whose first record would
\* have won was pushed, and answered with applied = 0.
C9_Witness ==
    /\ UnknownName(resp)
    /\ resp.bad[1] = Len(wire.changes) /\ resp.bad[1] >= 2
    /\ Outranks(wire.changes[1], db[resp.replica].clock[CellOf(wire.changes[1])])
    /\ resp.status = "ok" /\ resp.applied = 0

\* C10 as stated: a batch that fails part-way, on a storage error or on a
\* record that cannot be decoded, at any position, leaves the replica as it
\* was and reports 0 applied.
C10_AllOrNothing ==
    [][(resp'.op = "push" /\ resp'.bad # Clean) =>
          /\ db' = db
          /\ resp'.status = "ok"
          /\ resp'.applied = 0]_vars

\* Replica x updated column c of row id after the two replicas held the same
\* row: x wrote the cell, at a col_version the other replica has not seen.
UpdatedAlone(x, y, id, c) ==
    /\ RowExists(db[x], id) /\ RowExists(db[y], id)
    /\ db[x].clock[<<id, c>>].site_id = SiteIdOf(x)
    /\ db[x].clock[<<id, c>>].col_version > db[y].clock[<<id, c>>].col_version
    /\ db[y].clock[<<id, c>>].col_version >= 1

\* C20: no lost update across columns.  When A has updated one column of a
\* row both replicas hold and B has updated a different column of it, then
\* after each has applied the other's changes both replicas show A's value
\* in the first column and B's value in the second.
C20_NoLostUpdateAcrossColumns ==
    \A id \in RowIds, c1 \in Cols, c2 \in Cols :
       (c1 # c2 /\ UpdatedAlone(A, B, id, c1) /\ UpdatedAlone(B, A, id, c2)) =>
          \A a1 \in PushedFrom(db[A], db[B]), b1 \in PushedFrom(db[B], db[A]) :
             /\ a1.rows[id][c1] = db[A].rows[id][c1]
             /\ a1.rows[id][c2] = db[B].rows[id][c2]
             /\ b1.rows[id][c1] = db[A].rows[id][c1]
             /\ b1.rows[id][c2] = db[B].rows[id][c2]

\* After the pushes both replicas hold a row whose title A updated and whose
\* author B updated, each seen in the clock of the other replica.
C20_Witness ==
    /\ resp.op = "push" /\ resp.status = "ok"
    /\ \E id \in RowIds :
          /\ db[A].rows[id] = db[B].rows[id]
          /\ \A r \in Replicas :
                /\ db[r].clock[<<id, "title">>].site_id = SiteIdOf(A)
                /\ db[r].clock[<<id, "title">>].col_version = 2
                /\ db[r].clock[<<id, "author">>].site_id = SiteIdOf(B)
                /\ db[r].clock[<<id, "author">>].col_version = 2

\* The full-text index of a database matches its items table.
IndexMatches(d) == d.fts = d.rows

\* C13: whenever a push or an import has applied a change, the
\* index matches the items table when the operation returns.
C13_IndexRebuiltOnEveryPath ==
    (resp.op \in {"push", "import"} /\ resp.status = "ok" /\ resp.won > 0)
       => IndexMatches(db[resp.replica])

\* The ledger of the exporting replica holds a record after the since of
\* the last export.
ExportedSomething ==
    resp.op = "export" /\ After(db[resp.replica], resp.since) # {}

\* C14 as stated: an export from a replica with a tracked change succeeds
\* and writes a file holding the changes, which an import into a fresh
\* replica then applies.
C14_FileRoundTrip ==
    ExportedSomething =>
       /\ resp.status = "ok"
       /\ file.kind = "json" /\ file.format = FORMAT
       /\ file.change_count = Cardinality(After(db[resp.replica], resp.since))
       /\ \A reading \in EngineReadings, fresh \in Replicas :
             import_changes_from_file(EmptyDb(fresh), file, reading).applied > 0

\* C15 as stated: the body of a pull and the file of an export carry the pk
\* of every record as hex text, and decoding gives the record back.
C15_EncodeDecodeSymmetry ==
    /\ resp.op = "pull" =>
          \A i \in 1..Len(wire.changes) :
             /\ ChangesResponse(wire.changes)[i].pk = Text(Hex(wire.changes[i].pk.v))
             /\ _deserialize_change(ChangesResponse(wire.changes)[i]) = wire.changes[i]
    /\ ExportedSomething =>
          /\ file.kind = "json"
          /\ \A rec \in After(db[resp.replica], resp.since) :
                \E i \in 1..Len(file.changes) :
                   /\ file.changes[i].pk = Text(Hex(rec.pk.v))
                   /\ [file.changes[i] EXCEPT !.pk = Bytes(FromHex(file.changes[i].pk.v))] = rec

\* The file at the path cannot be imported: it is missing, it is not JSON,
\* or its format tag is not the expected one.
TransportError(f) ==
    \/ f.kind \in {"missing", "garbage"}
    \/ f.kind = "json" /\ f.format # FORMAT

C17_MalformedBodyIs422 ==
    (resp.op = "push" /\ resp.bad[2] \in {"nolist", "missing", "site_id"})
       => StatusCode(resp.status) = 422 /\ resp.won = 0

\* The answer a client sees to a push: status code, applied, db_version.
Answer(x) == <<StatusCode(x.status), x.applied, x.db_version>>

\* C18 as stated: the answer to a push whose apply failed differs from the
\* answer to a push that had nothing to apply, and the answer to a pull
\* whose read of the ledger failed differs from that of a pull that had
\* nothing to return.
C18_FailureIsExplicit ==
    /\ (resp.op = "push" /\ resp.bad[2] = "table")
          => Answer(resp) # Answer(PostResult(db[resp.replica], <<>>, "rebuilds"))
    /\ (resp.op = "pull" /\ resp.error # "none")
          => ChangesResponse(wire.changes) # <<>>

\* C18 as amended: a push whose apply fails with a storage error is
\* answered as a push of the empty list is (200, applied = 0, the unchanged
\* db_version) and leaves the replica as it was; a pull whose read fails is
\* answered with the empty change list, as a pull with nothing to return
\* is.  A push that fails with another exception is answered with 500.
C18_StorageFailureLooksEmpty ==
    [][/\ (resp'.op = "push" /\ resp'.bad[2] = "table") =>
             /\ Answer(resp') = Answer(PostResult(db[resp'.replica], <<>>, "rebuilds"))
             /\ Answer(resp') = <<200, 0, get_db_version(db[resp'.replica])>>
             /\ db' = db
       /\ (resp'.op = "pull" /\ resp'.error # "none") =>
             /\ ChangesResponse(wire'.changes) = <<>>
             /\ \A q \in get_changes_since(db[resp'.replica],
                                             get_db_version(db[resp'.replica]), <<>>) :
                   ChangesResponse(wire'.changes) = ChangesResponse(q)
       /\ (resp'.op = "push" /\ resp'.bad[2] \in {"missing", "site_id"}) =>
             StatusCode(resp'.status) = 500 /\ db' = db]_vars

\* A pull whose read failed was answered with the empty list although the
\* ledger holds records after the since asked for.
C18_Witness ==
    /\ resp.op = "pull" /\ resp.error # "none"
    /\ wire.changes = <<>>
    /\ After(db[resp.replica], resp.since) # {}

\* C11: pushes that overlap with other writers on the same replica behave
\* as if run one after another, and none is answered as a success with
\* applied = 0 because another writer held the database: a finished push
\* with a non-empty body that answered 200 reports applied > 0.
C11_PushNeverAnsweredEmptyWhenLocked ==
    \A p \in Procs :
       LET me == conc.procs[p]
       IN (me.op = "push" /\ me.pc = "done" /\ me.status = "ok" /\ Len(me.body) > 0)
             => me.applied > 0

\* C12: an export that runs while writes are being committed is a
\* point-in-time snapshot: no change in the data it writes has a db_version
\* greater than the db_version field written with it.
C12_ExportIsSnapshot ==
    \A p \in Procs :
       LET me == conc.procs[p]
           export_data == ExportDataOf(me)
       IN (me.op = "export" /\ me.pc \in {"write", "close", "done"})
             => \A i \in 1..Len(export_data.changes) :
                   export_data.changes[i].db_version <= export_data.db_version

\* C19: no connection opened through get_crdt_connection stays open after
\* its operation has ended, whichever way it ended.
C19_ConnectionsClosedOnEveryPath ==
    \A p \in Procs : conc.procs[p].pc = "done" => ~conc.procs[p].conn_open

\* C26: rebuild_fts_index is a full, idempotent rebuild: after a call the
\* index holds exactly the rows of the items table and the call has returned
\* their number, and a second call right after the first changes nothing and
\* returns the same number.
C26_RebuildIsFullAndIdempotent ==
    [][resp'.op = "rebuild" =>
          LET r == resp'.replica
          IN /\ IndexMatches(db'[r])
             /\ resp'.applied = Cardinality({id \in RowIds : RowExists(db'[r], id)})
             /\ (resp.op = "rebuild" /\ resp.replica = r) =>
                   (db'[r] = db[r] /\ resp'.applied = resp.applied)]_vars

\* Two databases agree on which rows exist, on the causal length of each row
\* and on the value of every column.
Agree(x, y) ==
    /\ Contents(x) = Contents(y)
    /\ \A id \in RowIds : x.life[id].cl = y.life[id].cl

KeysOf(d) == {d.rows[id].source_id : id \in {i \in RowIds : d.rows[i] # NoRow}}

\* C21: items created independently on two replicas both exist on both
\* replicas after the replicas apply each other's changes, whether their
\* ids were given explicitly or assigned by the database: every item either
\* replica holds is held by both once each has applied the other's export.
C21_IndependentItemsBothSurvive ==
    \A a1 \in PushedFrom(db[A], db[B]), b1 \in PushedFrom(db[B], db[A]) :
       /\ KeysOf(db[A]) \cup KeysOf(db[B]) \subseteq KeysOf(a1)
       /\ KeysOf(db[A]) \cup KeysOf(db[B]) \subseteq KeysOf(b1)

\* C28: on every replica at most one items row exists for a given
\* (source_type, source_id).
C28_OneRowPerSourceKey ==
    \A r \in Replicas, i \in RowIds, j \in RowIds :
       (/\ RowExists(db[r], i) /\ RowExists(db[r], j)
        /\ db[r].rows[i].source_id = db[r].rows[j].source_id) => i = j

\* The db_versions under which a database has recorded changes.
UsedVersions(d) ==
    {d.clock[c].db_version : c \in Cells} \cup {d.life[id].db_version : id \in RowIds}

LocalWrites == {"insert", "update", "delete"}

Pending(s) == [i \in 1..(SCHEMA_VERSION - s.user_version) |-> s.user_version + i]

\* The commands that work on a connection of get_connection or
\* get_crdt_connection.
ThroughConnection == {"connect", "migrate", "setup", "write", "update", "source"}

\* C27: apply_migrations applies exactly the migrations whose version is
\* greater than the database's schema version, in ascending order and each
\* once; afterwards the schema version is SCHEMA_VERSION, a second call
\* applies none, the schema version never decreases, and every connection
\* obtained through get_connection or get_crdt_connection sees the current
\* schema version.
C27_MigrationsAppliedOnceInOrder ==
    [][/\ store'.user_version >= store.user_version
       /\ store'.last.op \in ThroughConnection =>
            /\ store'.user_version = SCHEMA_VERSION
            /\ apply_migrations(store', TRUE).applied = <<>>
            /\ apply_migrations(store', TRUE).s = store'
       /\ store'.last.op = "connect" => store'.last.applied = Pending(store)
       /\ store'.last.op = "migrate" => store'.last.applied = <<>>
       /\ apply_migrations(store, TRUE).applied = Pending(store)]_vars

\* A database at schema version 1 has just been opened: migrations 2 and 3
\* were applied, in this order.
C27_Witness ==
    /\ store.last.op = "connect"
    /\ store.last.applied = <<2, 3>>
    /\ store.user_version = SCHEMA_VERSION

\* C30: applying migration 3 to an existing database through get_connection
\* or get_crdt_connection copies every row of the sync tables unchanged and
\* leaves the rows of item_history unchanged.
C30_Migration3KeepsRows ==
    [][(/\ store'.last.op = "connect"
        /\ store.tables # {}
        /\ 3 \in {store'.last.applied[i] : i \in 1..Len(store'.last.applied)})
       => /\ store'.items = store.items
          /\ store'.rows = store.rows
          /\ store'.history = store.history]_vars

\* C29: under the current schema a source sync whose plugin yields items and
\* raises no error stores every yielded item and ends with its sync_log row
\* in status "completed"; no run leaves the row in status "running".
C29_SourceSyncCompletes ==
    [][store'.last.op = "source" =>
          /\ store'.sync_log = "completed"
          /\ store'.stored = store'.last.yielded
          /\ store'.sync_log # "running"]_vars

C25_RegistrationIdempotent ==
    [][(store'.last.op = "upgrade" /\ store'.last.table \in store.crr) =>
          /\ store'.last.ok
          /\ store'.crr = store.crr
          /\ store'.ledger = store.ledger
          /\ store'.db_version = store.db_version]_vars

\* A table that had recorded a write has just been registered a second
\* time.
C25_Witness ==
    /\ store.last.op = "upgrade"
    /\ store.last.again
    /\ store.last.ok
    /\ store.ledger[store.last.table] > 0
    /\ store.db_version > 0

=============================================================================
